---- MODULE Spec2Model ----
(***************************************************************************)
(* Model of backend/main.py of api-alumnos: the in-memory student store,   *)
(* its reset policy, its API-key gate and its request handlers.            *)
(*                                                                         *)
(* Python values are modelled as follows.                                  *)
(*   - an Optional value is a sequence of length 0 (None) or 1 (the value) *)
(*   - curso and nivel, the two texts str.lower() is applied to, are       *)
(*     sequences of one-character strings; the other texts are atoms       *)
(*   - a student dict is a record over DictFields                          *)
(*   - students_db is a list of references: a cell either refers to one of *)
(*     the three dict objects of INITIAL_STUDENTS (list.copy() is shallow) *)
(*     or owns the dict a create appended                                  *)
(*   - datetimes are whole minutes since process start                     *)
(*                                                                         *)
(* Spec serves the requests one after the other, a handler at a step.      *)
(* LoopSpec runs create_student and health_check as tasks of the event     *)
(* loop, a statement at a step, to examine how requests interleave.        *)
(***************************************************************************)
EXTENDS Integers, Sequences, FiniteSets, TLC

VARIABLES
    INITIAL_STUDENTS,   \* the three seed dict objects (contents are mutable)
    students_db,        \* list of cells, see Deref
    next_id,            \* global next_id
    last_reset,         \* global last_reset
    now,                \* the clock, datetime.now()
    resp,               \* the response being sent, Idle between requests
    mutations,          \* number of store mutations performed so far
    issued,             \* ids handed out by create since process start
    issued_epoch,       \* ids handed out by create since the last reset
    tasks,              \* the requests in flight on the event loop (LoopSpec)
    running             \* the task the event loop is running, 0 for none

vars == <<INITIAL_STUDENTS, students_db, next_id, last_reset, now, resp,
          mutations, issued, issued_epoch, tasks, running>>

----------------------------------------------------------------------------
(* Bounds *)

\* the clock does not advance beyond this minute
MaxNow == 61
\* total number of store mutations (create/update/delete/activate/deactivate)
MaxMutations == 2
\* the amounts by which the clock advances between two requests
TickSteps == {30, 31}
\* minutes a request is in flight at most, from its arrival to its response
MaxFlight == 1

----------------------------------------------------------------------------
(* Python values *)

None == <<>>
Some(v) == <<v>>
IsNone(o) == Len(o) = 0
Val(o) == o[1]

UpperChars ==
    <<"A", "B", "C", "D", "E", "F", "G", "H", "I", "J", "K", "L", "M", "N",
      "O", "P", "Q", "R", "S", "T", "U", "V", "W", "X", "Y", "Z">>
LowerChars ==
    <<"a", "b", "c", "d", "e", "f", "g", "h", "i", "j", "k", "l", "m", "n",
      "o", "p", "q", "r", "s", "t", "u", "v", "w", "x", "y", "z">>

\* one character of str.lower()
LowerChar(c) ==
    IF \E k \in 1..Len(UpperChars) : UpperChars[k] = c
    THEN LowerChars[CHOOSE k \in 1..Len(UpperChars) : UpperChars[k] = c]
    ELSE c

\* str.lower()
lower(s) == [i \in 1..Len(s) |-> LowerChar(s[i])]

\* Python truthiness of an Optional[str]: None and "" are falsy
Truthy(o) == ~IsNone(o) /\ Len(Val(o)) > 0

----------------------------------------------------------------------------
(* Configuration and seed data *)

\* API_KEY = os.getenv("API_KEY", "demo-key-2024")
API_KEY == "demo-key-2024"

\* timedelta(minutes=30)
RESET_MINUTES == 30

\* next_id = 4
FIRST_FREE_ID == 4

Python_para_Principiantes ==
    <<"P", "y", "t", "h", "o", "n", " ", "p", "a", "r", "a", " ",
      "P", "r", "i", "n", "c", "i", "p", "i", "a", "n", "t", "e", "s">>
JavaScript_Avanzado ==
    <<"J", "a", "v", "a", "S", "c", "r", "i", "p", "t", " ",
      "A", "v", "a", "n", "z", "a", "d", "o">>
Data_Science == <<"D", "a", "t", "a", " ", "S", "c", "i", "e", "n", "c", "e">>
Principiante == <<"P", "r", "i", "n", "c", "i", "p", "i", "a", "n", "t", "e">>
Intermedio == <<"I", "n", "t", "e", "r", "m", "e", "d", "i", "o">>
Avanzado == <<"A", "v", "a", "n", "z", "a", "d", "o">>

\* the keys of a student dict
DictFields ==
    {"id", "nombre", "apellido", "email", "telefono", "curso", "nivel",
     "activo", "fecha_registro"}

\* the fields of StudentBase / StudentCreate / StudentUpdate
ModelFields ==
    {"nombre", "apellido", "email", "telefono", "curso", "nivel", "activo"}

\* INITIAL_STUDENTS as built at import time t
SeedDicts(t) ==
    << [id |-> 1, nombre |-> Some("Juan"), apellido |-> Some("Pérez"),
        email |-> Some("juan@email.com"), telefono |-> Some("123456789"),
        curso |-> Some(Python_para_Principiantes),
        nivel |-> Some(Principiante), activo |-> Some(TRUE),
        fecha_registro |-> t],
       [id |-> 2, nombre |-> Some("María"), apellido |-> Some("García"),
        email |-> Some("maria@email.com"), telefono |-> Some("987654321"),
        curso |-> Some(JavaScript_Avanzado),
        nivel |-> Some(Intermedio), activo |-> Some(TRUE),
        fecha_registro |-> t],
       [id |-> 3, nombre |-> Some("Carlos"), apellido |-> Some("López"),
        email |-> Some("carlos@email.com"), telefono |-> Some("555666777"),
        curso |-> Some(Data_Science),
        nivel |-> Some(Avanzado), activo |-> Some(FALSE),
        fecha_registro |-> t] >>

----------------------------------------------------------------------------
(* The module-level state and the reset policy *)

\* a reference to the i-th dict object of INITIAL_STUDENTS
SeedCell(i) == [ref |-> i, own |-> None]
\* a reference to a dict object created by create_student
OwnCell(d) == [ref |-> 0, own |-> Some(d)]

\* the dict a cell refers to, given the contents of the seed dicts
Deref(seeds, c) == IF c.ref # 0 THEN seeds[c.ref] ELSE Val(c.own)

\* the dicts of a list of cells, in list order
Dicts(seeds, db) == [k \in 1..Len(db) |-> Deref(seeds, db[k])]

\* INITIAL_STUDENTS.copy(): a new list holding the same three dict objects
INITIAL_STUDENTS_copy == [i \in 1..3 |-> SeedCell(i)]

\* the globals as one value
Globals ==
    [seeds |-> INITIAL_STUDENTS, db |-> students_db, next_id |-> next_id,
     last_reset |-> last_reset]

\* ResetAt without "next_id = 4"
ResetAt_KeepsNextId(g, t) ==
    [g EXCEPT !.db = INITIAL_STUDENTS_copy, !.last_reset = t]

\* the store is replaced by a copy of INITIAL_STUDENTS at time t
ResetAt(g, t) ==
    [g EXCEPT !.db = INITIAL_STUDENTS_copy, !.next_id = FIRST_FREE_ID,
              !.last_reset = t]

\* reset_data_if_needed resetting already when the window is reached
reset_data_if_needed_AtWindow(g, t) ==
    IF t - g.last_reset >= RESET_MINUTES THEN ResetAt(g, t) ELSE g

\* reset_data_if_needed without the reset
reset_data_if_needed_Never(g, t) == g

\* reset_data_if_needed(), run at time t
reset_data_if_needed(g, t) ==
    IF t - g.last_reset > RESET_MINUTES THEN ResetAt(g, t) ELSE g

\* next((s for s in students_db if s["id"] == student_id), None):
\* the position of the first dict with that id, 0 for None
FindStudent(g, student_id) ==
    LET ds == Dicts(g.seeds, g.db)
        hits == {k \in 1..Len(ds) : ds[k].id = student_id}
    IN IF hits = {} THEN 0 ELSE CHOOSE k \in hits : \A j \in hits : k <= j

----------------------------------------------------------------------------
(* The access gate *)

\* get_api_key without the comparison with API_KEY
get_api_key_AnyCredentials(credentials) ==
    IF IsNone(credentials) THEN 401 ELSE 0

\* get_api_key: 0 when the credentials are accepted, else the status raised.
\* credentials is None when the request carries no bearer credentials.
get_api_key(credentials) ==
    IF IsNone(credentials) THEN 401
    ELSE IF Val(credentials) # API_KEY THEN 401
    ELSE 0

get_api_key_detail(credentials) ==
    IF IsNone(credentials) THEN "Se requiere API Key para esta operación"
    ELSE "API Key inválida"

\* the outcome of a handler: the globals it leaves and its response
Outcome(g, op, status, body) ==
    [g |-> g, resp |-> [op |-> op, status |-> status, body |-> body]]

\* the dependency raised: the handler body does not run
Unauthorized(g, op, credentials) ==
    Outcome(g, op, 401, get_api_key_detail(credentials))

----------------------------------------------------------------------------
(* Response models *)

\* a dict validates against the Student response model: the str and bool
\* fields are not None (telefono is Optional)
IsStudent(d) ==
    \A f \in {"nombre", "apellido", "email", "curso", "nivel", "activo"} :
        ~IsNone(d[f])

\* response_model=Student / List[Student]: a return value that does not
\* validate is answered with status 500
Respond(g, op, body, valid) ==
    IF valid THEN Outcome(g, op, 200, body)
    ELSE Outcome(g, op, 500, "Internal Server Error")

----------------------------------------------------------------------------
(* POST /alumnos *)

\* StudentCreate(**body).model_dump(): the declared fields, defaults filled
\* in, keys that are not declared dropped
StudentCreate(body) ==
    [f \in ModelFields |->
        IF f \in DOMAIN body THEN body[f]
        ELSE IF f = "activo" THEN Some(TRUE) ELSE None]

\* NewStudent numbering every record with the first free id
NewStudent_FirstFreeId(id, student, t) ==
    [f \in DictFields |->
        IF f = "id" THEN FIRST_FREE_ID
        ELSE IF f = "fecha_registro" THEN t
        ELSE student[f]]

\* {"id": next_id, **student.model_dump(), "fecha_registro": datetime.now()}
NewStudent(id, student, t) ==
    [f \in DictFields |->
        IF f = "id" THEN id
        ELSE IF f = "fecha_registro" THEN t
        ELSE student[f]]

\* EmailRegistered looking at the active students only
EmailRegistered_ActiveOnly(g, student) ==
    \E k \in 1..Len(g.db) :
        /\ Deref(g.seeds, g.db[k]).email = student.email
        /\ Deref(g.seeds, g.db[k]).activo = Some(TRUE)

\* any(s["email"] == student.email for s in students_db)
EmailRegistered(g, student) ==
    \E k \in 1..Len(g.db) : Deref(g.seeds, g.db[k]).email = student.email

\* AppendStudent without "next_id += 1"
AppendStudent_NoIncrement(g, new_student) ==
    [g EXCEPT !.db = Append(g.db, OwnCell(new_student))]

\* students_db.append(new_student); next_id += 1
AppendStudent(g, new_student) ==
    [g EXCEPT !.db = Append(g.db, OwnCell(new_student)),
              !.next_id = g.next_id + 1]

\* the handler body of create_student, run at time t
create_student_body(g0, t, body) ==
    LET g == reset_data_if_needed(g0, t)
        student == StudentCreate(body)
        new_student == NewStudent(g.next_id, student, t)
    IN IF EmailRegistered(g, student)
       THEN Outcome(g, "create_student", 400, "El email ya está registrado")
       ELSE Respond(AppendStudent(g, new_student), "create_student",
                    new_student, IsStudent(new_student))

create_student_handler(g0, t, credentials, body) ==
    IF get_api_key(credentials) # 0
    THEN Unauthorized(g0, "create_student", credentials)
    ELSE create_student_body(g0, t, body)

----------------------------------------------------------------------------
(* PUT /alumnos/{student_id} *)

\* StudentUpdate keeping the keys it does not declare
StudentUpdate_AllKeys(body) == body

\* StudentUpdate(**body).model_dump(exclude_unset=True): the declared fields
\* the body supplies, a supplied null included; other keys are dropped
StudentUpdate(body) ==
    [f \in (DOMAIN body) \cap ModelFields |-> body[f]]

\* ApplyUpdate clearing telefono when the body does not supply it
ApplyUpdate_ClearsTelefono(student, update_data) ==
    [f \in DOMAIN student |->
        IF f \in DOMAIN update_data THEN update_data[f]
        ELSE IF f = "telefono" THEN None
        ELSE student[f]]

\* for field, value in update_data.items():
\*     if field in student: student[field] = value
ApplyUpdate(student, update_data) ==
    [f \in DOMAIN student |->
        IF f \in DOMAIN update_data THEN update_data[f] ELSE student[f]]

\* the dict object at position k now holds d: a write through a reference
\* to a seed dict changes the seed dict itself
WriteDict(g, k, d) ==
    IF g.db[k].ref # 0
    THEN [g EXCEPT !.seeds[g.db[k].ref] = d]
    ELSE [g EXCEPT !.db[k] = OwnCell(d)]

update_student_body(g0, t, student_id, body) ==
    LET g == reset_data_if_needed(g0, t)
        k == FindStudent(g, student_id)
    IN IF k = 0
       THEN Outcome(g, "update_student", 404, "Alumno no encontrado")
       ELSE LET student == ApplyUpdate(Deref(g.seeds, g.db[k]),
                                       StudentUpdate(body))
            IN Respond(WriteDict(g, k, student), "update_student", student,
                       IsStudent(student))

update_student_handler(g0, t, credentials, student_id, body) ==
    IF get_api_key(credentials) # 0
    THEN Unauthorized(g0, "update_student", credentials)
    ELSE update_student_body(g0, t, student_id, body)

----------------------------------------------------------------------------
(* DELETE /alumnos/{student_id} *)

\* WithoutId with "<" for "!="
WithoutId_KeepsSmaller(g, student_id) ==
    LET keep(c) == Deref(g.seeds, c).id < student_id
    IN [g EXCEPT !.db = SelectSeq(g.db, keep)]

\* [s for s in students_db if s["id"] != student_id]
WithoutId(g, student_id) ==
    LET keep(c) == Deref(g.seeds, c).id # student_id
    IN [g EXCEPT !.db = SelectSeq(g.db, keep)]

delete_student_body(g0, t, student_id) ==
    LET g == reset_data_if_needed(g0, t)
    IN IF FindStudent(g, student_id) = 0
       THEN Outcome(g, "delete_student", 404, "Alumno no encontrado")
       ELSE Outcome(WithoutId(g, student_id), "delete_student", 200,
                    "Alumno eliminado exitosamente")

delete_student_handler(g0, t, credentials, student_id) ==
    IF get_api_key(credentials) # 0
    THEN Unauthorized(g0, "delete_student", credentials)
    ELSE delete_student_body(g0, t, student_id)

----------------------------------------------------------------------------
(* PATCH /alumnos/{student_id}/desactivar and /activar *)

\* student["activo"] = value
SetActivo(g, k, value) ==
    WriteDict(g, k, [Deref(g.seeds, g.db[k]) EXCEPT !.activo = Some(value)])

deactivate_student_body(g0, t, student_id) ==
    LET g == reset_data_if_needed(g0, t)
        k == FindStudent(g, student_id)
    IN IF k = 0
       THEN Outcome(g, "deactivate_student", 404, "Alumno no encontrado")
       ELSE Outcome(SetActivo(g, k, FALSE), "deactivate_student", 200,
                    "Alumno desactivado exitosamente")

deactivate_student_handler(g0, t, credentials, student_id) ==
    IF get_api_key(credentials) # 0
    THEN Unauthorized(g0, "deactivate_student", credentials)
    ELSE deactivate_student_body(g0, t, student_id)

activate_student_body(g0, t, student_id) ==
    LET g == reset_data_if_needed(g0, t)
        k == FindStudent(g, student_id)
    IN IF k = 0
       THEN Outcome(g, "activate_student", 404, "Alumno no encontrado")
       ELSE Outcome(SetActivo(g, k, TRUE), "activate_student", 200,
                    "Alumno activado exitosamente")

activate_student_handler(g0, t, credentials, student_id) ==
    IF get_api_key(credentials) # 0
    THEN Unauthorized(g0, "activate_student", credentials)
    ELSE activate_student_body(g0, t, student_id)

----------------------------------------------------------------------------
(* GET / and GET /health *)

\* the handlers of the read endpoints declare no dependency on get_api_key:
\* whatever credentials the request carries are not looked at
root_handler(g0, t, credentials) ==
    LET g == reset_data_if_needed(g0, t)
    IN Outcome(g, "root", 200,
               [ultimo_reset |-> g.last_reset,
                proximo_reset |-> g.last_reset + RESET_MINUTES])

health_check_handler(g0, t, credentials) ==
    LET g == reset_data_if_needed(g0, t)
    IN Outcome(g, "health_check", 200,
               [timestamp |-> t, total_students |-> Len(g.db)])

----------------------------------------------------------------------------
(* GET /alumnos *)

\* [s for s in filtered_students if s["activo"] == activo]
FilterActivo(ds, activo) ==
    LET keep(s) == s.activo = activo IN SelectSeq(ds, keep)

\* [s for s in filtered_students if s[field].lower() == text.lower()],
\* for a list none of whose dicts holds None under field
FilterText(ds, field, text) ==
    LET keep(s) == lower(Val(s[field])) = lower(Val(text))
    IN SelectSeq(ds, keep)

\* s[field].lower() raises AttributeError for some dict of the list
LowerRaises(ds, field) == \E k \in 1..Len(ds) : IsNone(ds[k][field])

\* the try block of get_students: the filtered list, or raised
FilterStudents(ds, activo, curso, nivel) ==
    LET a == IF ~IsNone(activo) THEN FilterActivo(ds, activo) ELSE ds
        c_raises == Truthy(curso) /\ LowerRaises(a, "curso")
        c == IF Truthy(curso) /\ ~c_raises
             THEN FilterText(a, "curso", curso) ELSE a
        n_raises == Truthy(nivel) /\ LowerRaises(c, "nivel")
        n == IF Truthy(nivel) /\ ~n_raises
             THEN FilterText(c, "nivel", nivel) ELSE c
    IN [raised |-> c_raises \/ n_raises, list |-> n]

get_students_handler(g0, t, credentials, activo, curso, nivel) ==
    LET g == reset_data_if_needed(g0, t)
        r == FilterStudents(Dicts(g.seeds, g.db), activo, curso, nivel)
    IN IF r.raised
       THEN Outcome(g, "get_students", 500, "Error al obtener alumnos")
       ELSE Respond(g, "get_students", r.list,
                    \A k \in 1..Len(r.list) : IsStudent(r.list[k]))

----------------------------------------------------------------------------
(* GET /alumnos/{student_id} *)

get_student_handler(g0, t, credentials, student_id) ==
    LET g == reset_data_if_needed(g0, t)
        k == FindStudent(g, student_id)
    IN IF k = 0
       THEN Outcome(g, "get_student", 404, "Alumno no encontrado")
       ELSE Respond(g, "get_student", Deref(g.seeds, g.db[k]),
                    IsStudent(Deref(g.seeds, g.db[k])))

----------------------------------------------------------------------------
(* GET /estadisticas *)

\* Python truthiness of s["activo"]: None and False are falsy
ActivoTruthy(s) == ~IsNone(s.activo) /\ Val(s.activo)

\* DictIncrement moving an incremented key to the end
DictIncrement_MoveToEnd(counts, key) ==
    LET others(e) == e.key # key
        n == IF \E i \in 1..Len(counts) : counts[i].key = key
             THEN counts[CHOOSE i \in 1..Len(counts) : counts[i].key = key]
                    .cantidad
             ELSE 0
    IN Append(SelectSeq(counts, others), [key |-> key, cantidad |-> n + 1])

\* counts[key] = counts.get(key, 0) + 1 on a dict, which keeps its keys in
\* the order of their first insertion
DictIncrement(counts, key) ==
    IF \E i \in 1..Len(counts) : counts[i].key = key
    THEN [i \in 1..Len(counts) |->
            IF counts[i].key = key
            THEN [key |-> key, cantidad |-> counts[i].cantidad + 1]
            ELSE counts[i]]
    ELSE Append(counts, [key |-> key, cantidad |-> 1])

\* for student in students_db: counts[student[field]] = ... + 1
RECURSIVE CountBy(_, _, _)
CountBy(ds, field, counts) ==
    IF ds = <<>> THEN counts
    ELSE CountBy(Tail(ds), field, DictIncrement(counts, Head(ds)[field]))

\* the value get_statistics returns for the dicts ds
Statistics(ds) ==
    LET total_alumnos == Len(ds)
        alumnos_activos == Len(SelectSeq(ds, ActivoTruthy))
    IN [total_alumnos |-> total_alumnos,
        alumnos_activos |-> alumnos_activos,
        alumnos_inactivos |-> total_alumnos - alumnos_activos,
        por_curso |-> CountBy(ds, "curso", <<>>),
        por_nivel |-> CountBy(ds, "nivel", <<>>)]

\* get_statistics_handler restarting the reset window at every call
get_statistics_handler_Touching(g0, t, credentials) ==
    LET g == reset_data_if_needed(g0, t)
    IN Outcome([g EXCEPT !.last_reset = t], "get_statistics", 200,
               Statistics(Dicts(g.seeds, g.db)))

get_statistics_handler(g0, t, credentials) ==
    LET g == reset_data_if_needed(g0, t)
    IN Outcome(g, "get_statistics", 200, Statistics(Dicts(g.seeds, g.db)))

----------------------------------------------------------------------------
(* POST /reset-demo *)

reset_demo_data_handler(g0, t, credentials) ==
    IF get_api_key(credentials) # 0
    THEN Unauthorized(g0, "reset_demo_data", credentials)
    ELSE LET g == ResetAt(g0, t)
         IN Outcome(g, "reset_demo_data", 200,
                    [message |-> "Datos de demostración reseteados exitosamente",
                     timestamp |-> g.last_reset,
                     total_students |-> Len(g.db)])

----------------------------------------------------------------------------
(* Requests *)

\* the bearer credentials a request may carry
Credentials == {None, Some(API_KEY), Some("Demo-Key-2024")}
\* the bearer credentials the requests of the read endpoints carry
ReadCredentials == {None, Some(API_KEY)}

Ana == "ana@email.com"

\* request bodies of POST /alumnos
CreateBodies ==
    { [nombre |-> Some("Ana"), apellido |-> Some("Ruiz"), email |-> Some(Ana),
       curso |-> Some(Python_para_Principiantes), nivel |-> Some(Avanzado)],
      [id |-> 9, nombre |-> Some("Luis"), apellido |-> Some("Sosa"),
       email |-> Some("luis@email.com"), telefono |-> Some("111"),
       curso |-> Some(Data_Science), nivel |-> Some(Principiante),
       activo |-> Some(FALSE)],
      [nombre |-> Some("Juan"), apellido |-> Some("Otro"),
       email |-> Some("juan@email.com"),
       curso |-> Some(Data_Science), nivel |-> Some(Intermedio)] }

\* request bodies of PUT /alumnos/{student_id}
UpdateBodies ==
    { <<>>,
      [activo |-> None, curso |-> None],
      [id |-> 9, fecha_registro |-> 99, email |-> Some(Ana),
       nivel |-> Some(Intermedio)] }

\* the ids requests name
StudentIds == {1, 4}

\* the query parameters of GET /alumnos
ActivoFilters == {None, Some(TRUE), Some(FALSE)}
CursoFilters ==
    {None, Some(<<>>),
     Some(<<"d", "a", "t", "a", " ", "s", "c", "i", "e", "n", "c", "e">>)}
NivelFilters == {None, Some(<<"A", "V", "A", "N", "Z", "A", "D", "O">>)}

----------------------------------------------------------------------------
(* The state machine *)

\* no request is being served
Idle == [op |-> "idle", status |-> 0, body |-> None]

\* the event loop holds two requests at a time
TaskIds == {1, 2}

\* a slot of the event loop that holds no request.  The fields of a task:
\* the line it executes next, its operation and request body, its time of
\* arrival, whether the reset window had elapsed then, whether its pre-check
\* replaced the store, the local new_student, the value of last_reset when
\* new_student was built, the status of its response
IdleTask ==
    [pc |-> "idle", op |-> "idle", body |-> None, at |-> 0, late |-> FALSE,
     did_reset |-> FALSE, new_student |-> None, epoch |-> 0, status |-> 0]

Init ==
    /\ INITIAL_STUDENTS = SeedDicts(0)
    /\ students_db = INITIAL_STUDENTS_copy
    /\ next_id = FIRST_FREE_ID
    /\ last_reset = 0
    /\ now = 0
    /\ resp = Idle
    /\ mutations = 0
    /\ issued = {}
    /\ issued_epoch = {}
    /\ tasks = [p \in TaskIds |-> IdleTask]
    /\ running = 0

\* the globals and the response take the handler's outcome; a handler that
\* changed the store beyond the reset pre-check spends one mutation
Serve(r, mutating) ==
    LET spent == IF /\ mutating
                    /\ r.resp.status # 401
                    /\ r.g # reset_data_if_needed(Globals, now)
                 THEN 1 ELSE 0
        was_reset == \/ r.g.last_reset # last_reset
                     \/ r.resp.op = "reset_demo_data" /\ r.resp.status = 200
    IN /\ mutations + spent <= MaxMutations
       /\ mutations' = mutations + spent
       /\ INITIAL_STUDENTS' = r.g.seeds
       /\ students_db' = r.g.db
       /\ next_id' = r.g.next_id
       /\ last_reset' = r.g.last_reset
       /\ resp' = r.resp
       /\ now' = now
       /\ LET new == IF r.resp.op = "create_student" /\ r.resp.status = 200
                     THEN {r.resp.body.id} ELSE {}
          IN /\ issued' = issued \cup new
             /\ issued_epoch' = (IF was_reset THEN {} ELSE issued_epoch) \cup new
       /\ UNCHANGED <<tasks, running>>

\* the response is sent; the server takes the next request
send_response ==
    /\ resp # Idle
    /\ resp' = Idle
    /\ UNCHANGED <<INITIAL_STUDENTS, students_db, next_id, last_reset, now,
                   mutations, issued, issued_epoch, tasks, running>>

\* time passes between two requests
Tick ==
    \E d \in TickSteps :
        /\ resp = Idle
        /\ now + d <= MaxNow
        /\ now' = now + d
        /\ UNCHANGED <<INITIAL_STUDENTS, students_db, next_id, last_reset,
                       resp, mutations, issued, issued_epoch, tasks, running>>

create_student ==
    \E credentials \in Credentials, body \in CreateBodies :
        /\ resp = Idle
        /\ Serve(create_student_handler(Globals, now, credentials, body), TRUE)

reset_demo_data ==
    \E credentials \in Credentials :
        /\ resp = Idle
        /\ Serve(reset_demo_data_handler(Globals, now, credentials), FALSE)

update_student ==
    \E credentials \in Credentials, student_id \in StudentIds,
       body \in UpdateBodies :
        /\ resp = Idle
        /\ Serve(update_student_handler(Globals, now, credentials, student_id,
                                        body), TRUE)

delete_student ==
    \E credentials \in Credentials, student_id \in StudentIds :
        /\ resp = Idle
        /\ Serve(delete_student_handler(Globals, now, credentials, student_id),
                 TRUE)

deactivate_student ==
    \E credentials \in Credentials, student_id \in StudentIds :
        /\ resp = Idle
        /\ Serve(deactivate_student_handler(Globals, now, credentials,
                                            student_id), TRUE)

activate_student ==
    \E credentials \in Credentials, student_id \in StudentIds :
        /\ resp = Idle
        /\ Serve(activate_student_handler(Globals, now, credentials, student_id),
                 TRUE)

root ==
    \E credentials \in ReadCredentials :
        /\ resp = Idle
        /\ Serve(root_handler(Globals, now, credentials), FALSE)

health_check ==
    \E credentials \in ReadCredentials :
        /\ resp = Idle
        /\ Serve(health_check_handler(Globals, now, credentials), FALSE)

get_students ==
    \E credentials \in ReadCredentials, activo \in ActivoFilters,
       curso \in CursoFilters, nivel \in NivelFilters :
        /\ resp = Idle
        /\ Serve(get_students_handler(Globals, now, credentials, activo, curso,
                                      nivel), FALSE)

get_student ==
    \E credentials \in ReadCredentials, student_id \in StudentIds :
        /\ resp = Idle
        /\ Serve(get_student_handler(Globals, now, credentials, student_id),
                 FALSE)

get_statistics ==
    \E credentials \in ReadCredentials :
        /\ resp = Idle
        /\ Serve(get_statistics_handler(Globals, now, credentials), FALSE)

Next ==
    \/ Tick
    \/ send_response
    \/ root
    \/ health_check
    \/ get_students
    \/ get_student
    \/ get_statistics
    \/ create_student
    \/ update_student
    \/ delete_student
    \/ deactivate_student
    \/ activate_student
    \/ reset_demo_data

Spec == Init /\ [][Next]_vars

----------------------------------------------------------------------------
(* The event loop *)

\* The handlers are coroutines (async def) whose bodies hold no await: the
\* event loop runs a body from its first statement to its return before it
\* runs anything else.  Here create_student and health_check run as tasks, a
\* statement at a step; the pc of a task names the line of main.py it
\* executes next.  The globals of a task are the module's own.

\* the operations run as tasks
LoopOps == {"create_student", "health_check"}

\* await points right after the time check of the reset pre-check
AwaitPoints_AfterTimeCheck == {"L139"}

\* the lines before which a handler body awaits, yielding to the event loop
AwaitPoints == {}

\* an event loop that switches tasks between any two statements
CanRun_Preemptive(p) == TRUE

\* the event loop may run task p: no other task is inside its body
CanRun(p) == running \in {0, p}

\* task p holds a request
InFlight(p) == tasks[p].pc # "idle"

\* task p is about to execute the line pc
At(p, pc) == tasks[p].pc = pc /\ CanRun(p)

\* the first line of the handler body after the reset pre-check
Entry(op) == IF op = "create_student" THEN "L256" ELSE "L163"

\* task p goes on as t at line pc; the event loop keeps running it unless
\* the body returned or awaits there
Move(p, t, pc) ==
    /\ tasks' = [tasks EXCEPT ![p] = [t EXCEPT !.pc = pc]]
    /\ running' = IF pc = "done" \/ pc \in AwaitPoints THEN 0 ELSE p

\* a request arrives: the dependency get_api_key of create_student is
\* resolved, and the handler body is scheduled
arrive ==
    \E p \in TaskIds, op \in LoopOps, credentials \in ReadCredentials,
       body \in CreateBodies :
        /\ tasks[p].pc = "idle"
        /\ \A q \in TaskIds : tasks[q].pc = "idle" => p <= q
        /\ op = "create_student" =>
             next_id + Cardinality({q \in TaskIds :
                                      /\ tasks[q].op = "create_student"
                                      /\ tasks[q].pc \notin {"idle", "done"}})
               < FIRST_FREE_ID + MaxMutations
        /\ op = "health_check" =>
             /\ credentials = None
             /\ \A b \in CreateBodies : b.email = Ana => b = body
        /\ LET status == IF op = "create_student"
                         THEN get_api_key(credentials) ELSE 0
           IN tasks' = [tasks EXCEPT ![p] =
                  [IdleTask EXCEPT
                      !.pc = IF status = 0 THEN "L138" ELSE "done",
                      !.op = op,
                      !.body = IF op = "create_student"
                               THEN Some(body) ELSE None,
                      !.at = now,
                      !.late = now - last_reset > RESET_MINUTES,
                      !.status = status]]
        /\ UNCHANGED <<INITIAL_STUDENTS, students_db, next_id, last_reset,
                       now, resp, mutations, issued, issued_epoch, running>>

\* line 138: if datetime.now() - last_reset > timedelta(minutes=30)
time_check ==
    \E p \in TaskIds :
        /\ At(p, "L138")
        /\ Move(p, tasks[p],
                IF now - last_reset > RESET_MINUTES
                THEN "L139" ELSE Entry(tasks[p].op))
        /\ UNCHANGED <<INITIAL_STUDENTS, students_db, next_id, last_reset,
                       now, resp, mutations, issued, issued_epoch>>

\* line 139: students_db = INITIAL_STUDENTS.copy()
replace_store ==
    \E p \in TaskIds :
        /\ At(p, "L139")
        /\ students_db' = INITIAL_STUDENTS_copy
        /\ Move(p, [tasks[p] EXCEPT !.did_reset = TRUE], "L140")
        /\ UNCHANGED <<INITIAL_STUDENTS, next_id, last_reset, now, resp,
                       mutations, issued, issued_epoch>>

\* line 140: next_id = 4
rewind_next_id ==
    \E p \in TaskIds :
        /\ At(p, "L140")
        /\ next_id' = FIRST_FREE_ID
        /\ Move(p, tasks[p], "L141")
        /\ UNCHANGED <<INITIAL_STUDENTS, students_db, last_reset, now, resp,
                       mutations, issued, issued_epoch>>

\* line 141: last_reset = datetime.now()
restart_window ==
    \E p \in TaskIds :
        /\ At(p, "L141")
        /\ last_reset' = now
        /\ Move(p, tasks[p], Entry(tasks[p].op))
        /\ UNCHANGED <<INITIAL_STUDENTS, students_db, next_id, now, resp,
                       mutations, issued, issued_epoch>>

\* lines 256-257: the email is registered already: HTTPException 400
email_check ==
    \E p \in TaskIds :
        /\ At(p, "L256")
        /\ IF EmailRegistered(Globals, StudentCreate(Val(tasks[p].body)))
           THEN Move(p, [tasks[p] EXCEPT !.status = 400], "done")
           ELSE Move(p, tasks[p], "L259")
        /\ UNCHANGED <<INITIAL_STUDENTS, students_db, next_id, last_reset,
                       now, resp, mutations, issued, issued_epoch>>

\* lines 259-263: new_student = {"id": next_id, ...}
build_student ==
    \E p \in TaskIds :
        /\ At(p, "L259")
        /\ Move(p, [tasks[p] EXCEPT !.new_student =
                      Some(NewStudent(next_id,
                                      StudentCreate(Val(tasks[p].body)),
                                      now)),
                                    !.epoch = last_reset],
                "L265")
        /\ UNCHANGED <<INITIAL_STUDENTS, students_db, next_id, last_reset,
                       now, resp, mutations, issued, issued_epoch>>

\* line 265: students_db.append(new_student)
append_student ==
    \E p \in TaskIds :
        /\ At(p, "L265")
        /\ students_db' =
             Append(students_db, OwnCell(Val(tasks[p].new_student)))
        /\ Move(p, tasks[p], "L266")
        /\ UNCHANGED <<INITIAL_STUDENTS, next_id, last_reset, now, resp,
                       mutations, issued, issued_epoch>>

\* line 266: next_id += 1
increment_next_id ==
    \E p \in TaskIds :
        /\ At(p, "L266")
        /\ next_id' = next_id + 1
        /\ Move(p, tasks[p], "L268")
        /\ UNCHANGED <<INITIAL_STUDENTS, students_db, last_reset, now, resp,
                       mutations, issued, issued_epoch>>

\* line 268: return new_student
return_student ==
    \E p \in TaskIds :
        /\ At(p, "L268")
        /\ Move(p, [tasks[p] EXCEPT !.status = 200], "done")
        /\ UNCHANGED <<INITIAL_STUDENTS, students_db, next_id, last_reset,
                       now, resp, mutations, issued, issued_epoch>>

\* lines 164-171 of health_check: return {..., "total_students":
\* len(students_db), ...}
count_students ==
    \E p \in TaskIds :
        /\ At(p, "L163")
        /\ Move(p, [tasks[p] EXCEPT !.status = 200,
                                    !.body = Some(Len(students_db))],
                "done")
        /\ UNCHANGED <<INITIAL_STUDENTS, students_db, next_id, last_reset,
                       now, resp, mutations, issued, issued_epoch>>

\* the response of a task is sent: its slot is free again
respond ==
    \E p \in TaskIds :
        /\ tasks[p].pc = "done"
        /\ tasks' = [tasks EXCEPT ![p] = IdleTask]
        /\ UNCHANGED <<INITIAL_STUDENTS, students_db, next_id, last_reset,
                       now, resp, mutations, issued, issued_epoch, running>>

\* the clock values at which requests arrive after a time without requests
WaitTimes == TickSteps \cup {a + b : a \in TickSteps, b \in TickSteps}

\* a minute passes while requests are in flight, at one of the clock values
\* at which requests arrive
elapse ==
    /\ now \in {0} \cup WaitTimes
    /\ \E p \in TaskIds : InFlight(p)
    /\ \A p \in TaskIds : InFlight(p) => now + 1 - tasks[p].at <= MaxFlight
    /\ now + 1 <= MaxNow
    /\ now' = now + 1
    /\ UNCHANGED <<INITIAL_STUDENTS, students_db, next_id, last_reset, resp,
                   mutations, issued, issued_epoch, tasks, running>>

\* time passes while no request is in flight
wait ==
    \E t \in WaitTimes :
        /\ \A p \in TaskIds : ~InFlight(p)
        /\ now < t /\ t <= MaxNow
        /\ now' = t
        /\ UNCHANGED <<INITIAL_STUDENTS, students_db, next_id, last_reset,
                       resp, mutations, issued, issued_epoch, tasks, running>>

LoopNext ==
    \/ arrive
    \/ time_check
    \/ replace_store
    \/ rewind_next_id
    \/ restart_window
    \/ email_check
    \/ build_student
    \/ append_student
    \/ increment_next_id
    \/ return_student
    \/ count_students
    \/ respond
    \/ elapse
    \/ wait

LoopSpec == Init /\ [][LoopNext]_vars

----------------------------------------------------------------------------
(* Vocabulary of the properties *)

\* Requests are served one at a time: a request arrives in a state where
\* resp = Idle, and the properties that quantify over the requests that may
\* arrive are stated of those states.

\* the records of the store, in list order
Students == Dicts(INITIAL_STUDENTS, students_db)

\* the seed as it was at process start
OriginalSeed == SeedDicts(0)

\* the valid credentials
Key == Some(API_KEY)

\* the globals as the reset pre-check of a request arriving now leaves them
Fresh == reset_data_if_needed(Globals, now)

\* the reset window has elapsed: a request arriving now resets the store
WindowElapsed == now - last_reset > RESET_MINUTES

\* the dicts of globals g, in list order
StudentsOf(g) == Dicts(g.seeds, g.db)

\* the ids of the dicts ds
IdsOf(ds) == {ds[k].id : k \in 1..Len(ds)}

\* ds without its k-th element
RemoveAt(ds, k) == SubSeq(ds, 1, k - 1) \o SubSeq(ds, k + 1, Len(ds))

ReadOps == {"root", "health_check", "get_students", "get_student",
            "get_statistics"}

\* this step serves a request of endpoint op
Serves(op) == resp = Idle /\ resp'.op = op

----------------------------------------------------------------------------
(* C1 *)

\* C1 (as claimed): once the clock is more than 30 minutes past last_reset,
\* the next operation leaves the store holding exactly the three seeded
\* records, every field at its value at process start, and next_id = 4.
\* Stated for the read operations, which add nothing to the store themselves.
C1_NextOperationRestoresSeed ==
    [][(WindowElapsed /\ \E op \in ReadOps : Serves(op))
        => /\ Dicts(INITIAL_STUDENTS', students_db') = OriginalSeed
           /\ next_id' = FIRST_FREE_ID]_vars

----------------------------------------------------------------------------
(* C2 *)

\* every dict of ds validates as Student
AllValid(ds) == \A k \in 1..Len(ds) : IsStudent(ds[k])

\* the outcome is a rejection that leaves the globals as they are
Rejected(r) == r.resp.status = 401 /\ r.g = Globals

\* C2: in every store state and at every clock value, each mutating request
\* that carries no credentials or credentials other than the key is answered
\* 401 and leaves students_db, the dicts, next_id and last_reset unchanged;
\* each read request without credentials is never answered 401 and is
\* answered exactly as the same request carrying the key: root, health and
\* statistics with 200, get with 200 for an id of the store (404 otherwise)
\* and list with 200, whenever the records to return validate as Student.
C2_GateOnlyOnWrites ==
    resp = Idle =>
    /\ \A c \in Credentials \ {Key} :
        /\ \A b \in CreateBodies :
              Rejected(create_student_handler(Globals, now, c, b))
        /\ \A i \in StudentIds, b \in UpdateBodies :
              Rejected(update_student_handler(Globals, now, c, i, b))
        /\ \A i \in StudentIds :
              /\ Rejected(delete_student_handler(Globals, now, c, i))
              /\ Rejected(deactivate_student_handler(Globals, now, c, i))
              /\ Rejected(activate_student_handler(Globals, now, c, i))
        /\ Rejected(reset_demo_data_handler(Globals, now, c))
    /\ root_handler(Globals, now, None).resp.status = 200
    /\ root_handler(Globals, now, None) = root_handler(Globals, now, Key)
    /\ health_check_handler(Globals, now, None).resp.status = 200
    /\ health_check_handler(Globals, now, None)
         = health_check_handler(Globals, now, Key)
    /\ get_statistics_handler(Globals, now, None).resp.status = 200
    /\ get_statistics_handler(Globals, now, None)
         = get_statistics_handler(Globals, now, Key)
    /\ \A i \in StudentIds :
        LET r == get_student_handler(Globals, now, None, i)
            k == FindStudent(Fresh, i)
        IN /\ r = get_student_handler(Globals, now, Key, i)
           /\ r.resp.status = IF k = 0 THEN 404
                               ELSE IF IsStudent(StudentsOf(Fresh)[k]) THEN 200
                               ELSE 500
    /\ \A a \in ActivoFilters, c \in CursoFilters, n \in NivelFilters :
        LET r == get_students_handler(Globals, now, None, a, c, n)
        IN /\ r = get_students_handler(Globals, now, Key, a, c, n)
           /\ r.resp.status \in {200, 500}
           /\ AllValid(StudentsOf(Fresh)) => r.resp.status = 200

\* a delete with bad credentials was rejected on a mutated store whose reset
\* window had elapsed
C2_Witness ==
    /\ resp.op = "delete_student" /\ resp.status = 401
    /\ mutations > 0 /\ Len(students_db) > 3
    /\ WindowElapsed

----------------------------------------------------------------------------
(* C3 *)

\* the outcome of an authorized create with body b
Created(b) == create_student_handler(Globals, now, Key, b)

\* C3 (as claimed): an authorized create whose email equals the email of a
\* record in the store is answered 400 and leaves the record sequence and
\* next_id as they were before the call.
C3_ConflictLeavesStore ==
    \A b \in CreateBodies :
        resp = Idle /\ EmailRegistered(Globals, StudentCreate(b))
        => /\ Created(b).resp.status = 400
           /\ StudentsOf(Created(b).g) = Students
           /\ Created(b).g.next_id = next_id

\* C3 (amended): an authorized create whose email equals the email of a
\* record in the store as the reset pre-check leaves it is answered 400 and
\* leaves the globals exactly as the pre-check left them; so when the window
\* has not elapsed the record sequence and next_id are those before the call.
C3_ConflictLeavesFreshStore ==
    \A b \in CreateBodies :
        resp = Idle =>
        /\ (\E k \in 1..Len(Fresh.db) :
                StudentsOf(Fresh)[k].email = b.email)
            => /\ Created(b).resp.status = 400
               /\ Created(b).g = Fresh
        /\ (~WindowElapsed
            /\ \E k \in 1..Len(Students) : Students[k].email = b.email)
            => /\ Created(b).resp.status = 400
               /\ StudentsOf(Created(b).g) = Students
               /\ Created(b).g.next_id = next_id
               /\ Created(b).g = Globals

\* a create was answered 400 on a store that holds a created record
C3_Witness ==
    /\ resp.op = "create_student" /\ resp.status = 400
    /\ Len(students_db) > 3
    /\ next_id > FIRST_FREE_ID

----------------------------------------------------------------------------
(* C4 *)

\* the outcome of an authorized delete of id i
Deleted(i) == delete_student_handler(Globals, now, Key, i)

\* the effect C4 describes of deleting id i from globals g, with outcome r
DeleteContract(g, i, r) ==
    LET ds == StudentsOf(g)
    IN IF i \notin IdsOf(ds)
       THEN /\ r.resp.status = 404
            /\ StudentsOf(r.g) = ds
            /\ r.g.next_id = g.next_id
       ELSE LET k == CHOOSE k \in 1..Len(ds) : ds[k].id = i
            IN /\ r.resp.status = 200
               /\ StudentsOf(r.g) = RemoveAt(ds, k)
               /\ Len(r.g.db) = Len(g.db) - 1
               /\ r.g.next_id = g.next_id
               /\ delete_student_handler(r.g, now, Key, i).resp.status = 404
               /\ delete_student_handler(r.g, now, Key, i).g = r.g

\* C4 (as claimed): an authorized delete of an id not in the store is
\* answered 404 and leaves the records and next_id unchanged; of an id in
\* the store it removes exactly that record, keeps the others in order,
\* leaves next_id unchanged, and an immediately repeated delete is answered
\* 404.
C4_DeleteContract ==
    \A i \in StudentIds : resp = Idle => DeleteContract(Globals, i, Deleted(i))

\* C4 (amended): the same, of the store as the reset pre-check of the call
\* leaves it, which is the store before the call when the window has not
\* elapsed; the dicts that stay and last_reset are as the pre-check left
\* them.
C4_DeleteContractOfFreshStore ==
    resp = Idle =>
    /\ \A i \in StudentIds :
        /\ DeleteContract(Fresh, i, Deleted(i))
        /\ Deleted(i).g.seeds = Fresh.seeds
        /\ Deleted(i).g.last_reset = Fresh.last_reset
        /\ Deleted(i).resp.status = 404 => Deleted(i).g = Fresh
    /\ ~WindowElapsed
        => \A i \in StudentIds : DeleteContract(Globals, i, Deleted(i))

\* a delete removed a record from the middle or the head of a store that
\* holds a created record
C4_Witness ==
    /\ resp.op = "delete_student" /\ resp.status = 200
    /\ Len(students_db) = 3
    /\ IdsOf(Students) = {2, 3, 4}

----------------------------------------------------------------------------
(* C5 *)

\* the cells of a list that own their dict
OwnCells(db) == {db[k] : k \in {j \in 1..Len(db) : db[j].ref = 0}}

\* C5: no step changes the id or fecha_registro of a dict object.  The seed
\* dicts keep the values of process start; a dict created by create_student
\* is in the store after a step only with the id and fecha_registro it had
\* before the step, or as the record the step's create returned, dated now;
\* and an update step neither adds nor renumbers records.
C5_IdAndDateKept ==
    [][/\ \A i \in 1..3 :
            /\ INITIAL_STUDENTS'[i].id = OriginalSeed[i].id
            /\ INITIAL_STUDENTS'[i].fecha_registro
                 = OriginalSeed[i].fecha_registro
       /\ \A c \in OwnCells(students_db') :
            \/ \E b \in OwnCells(students_db) :
                 /\ Val(b.own).id = Val(c.own).id
                 /\ Val(b.own).fecha_registro = Val(c.own).fecha_registro
            \/ /\ Serves("create_student") /\ resp'.status = 200
               /\ Val(c.own).id = resp'.body.id
               /\ Val(c.own).fecha_registro = now
               /\ c = students_db'[Len(students_db')]
       /\ (Serves("update_student") /\ ~WindowElapsed)
            => /\ Len(students_db') = Len(students_db)
               /\ \A k \in 1..Len(students_db) :
                    /\ Students'[k].id = Students[k].id
                    /\ Students'[k].fecha_registro = Students[k].fecha_registro
       /\ (Serves("update_student") /\ WindowElapsed /\ resp'.status # 401)
            => IdsOf(Students') = {1, 2, 3}
      ]_vars

\* an update whose body carries id, fecha_registro and email was applied to a
\* created record, which keeps its id and its date
C5_Witness ==
    /\ resp.op = "update_student" /\ resp.status = 200
    /\ resp.body.email = Some(Ana)
    /\ resp.body.id = 4
    /\ resp.body.fecha_registro = 30
    /\ now = 30

----------------------------------------------------------------------------
(* C6 *)

\* the contract C6 describes of a successful create on globals g, outcome r
CreateContract(g, r) ==
    /\ r.resp.body.id = g.next_id
    /\ StudentsOf(r.g) = Append(StudentsOf(g), r.resp.body)
    /\ r.g.next_id = g.next_id + 1

\* C6 (as claimed): each successful create returns a record whose id is
\* next_id as it was before the call, appends it as the last record and
\* increases next_id by exactly 1.
C6_CreateTakesNextId ==
    \A b \in CreateBodies :
        (resp = Idle /\ Created(b).resp.status = 200)
        => CreateContract(Globals, Created(b))

\* C6 (amended): the same, of the store and next_id as the reset pre-check of
\* the call leaves them (those before the call when the window has not
\* elapsed); a create that fails and a delete leave next_id as the pre-check
\* left it; so the ids handed out since the last reset are 4, 5, ... in
\* sequence, whatever failed creates and deletes came in between.
C6_CreateTakesFreshNextId ==
    /\ issued_epoch = FIRST_FREE_ID .. (next_id - 1)
    /\ resp = Idle =>
        /\ \A b \in CreateBodies, c \in Credentials :
            LET r == create_student_handler(Globals, now, c, b)
            IN /\ r.resp.status \in {200, 400, 401}
               /\ r.resp.status = 200 =>
                    /\ c = Key
                    /\ CreateContract(Fresh, r)
                    /\ r.resp.body.fecha_registro = now
                    /\ ~WindowElapsed => CreateContract(Globals, r)
               /\ r.resp.status = 400 => r.g.next_id = Fresh.next_id
               /\ r.resp.status = 401 => r.g.next_id = next_id
        /\ \A i \in StudentIds : Deleted(i).g.next_id = Fresh.next_id

\* from the seed state two creates were answered with ids 4 and 5
C6_Witness ==
    /\ resp.op = "create_student" /\ resp.status = 200
    /\ resp.body.id = 5
    /\ issued = {4, 5}
    /\ IdsOf(Students) = {1, 2, 3, 4, 5}

----------------------------------------------------------------------------
(* C7 *)

\* this step's create handed out an id
HandsOutId == Serves("create_student") /\ resp'.status = 200

\* C7 (as claimed): an id that was assigned to a created record is never
\* assigned again to a later-created record.
C7_IdsNeverReused ==
    [][HandsOutId => resp'.body.id \notin issued]_vars

\* C7 (amended): an id assigned to a created record is not assigned again
\* before the next automatic or explicit reset, and is greater than every id
\* assigned since the last one; a reset restarts the numbering at 4.
C7_IdsNotReusedBeforeReset ==
    [][/\ HandsOutId =>
            IF WindowElapsed
            THEN resp'.body.id = FIRST_FREE_ID
            ELSE /\ resp'.body.id \notin issued_epoch
                 /\ \A j \in issued_epoch \cup IdsOf(Students) :
                        j < resp'.body.id
       /\ (Serves("reset_demo_data") /\ resp'.status = 200)
            => next_id' = FIRST_FREE_ID
      ]_vars

\* after a reset a create handed out the first free id anew, and no other
\* id since that reset
C7_Witness ==
    /\ resp.op = "create_student" /\ resp.status = 200
    /\ resp.body.id = FIRST_FREE_ID
    /\ issued_epoch = {FIRST_FREE_ID}
    /\ last_reset = 31 /\ now = 31
    /\ mutations = 2

----------------------------------------------------------------------------
(* C8 *)

\* the number of positions of ds whose dict satisfies P
CountOf(ds, P(_)) == Cardinality({k \in 1..Len(ds) : P(ds[k])})

IsActive(s) == s.activo = Some(TRUE)
IsInactive(s) == s.activo = Some(FALSE)

\* C8 (as claimed): the statistics partition the store by active:
\* alumnos_activos is the number of records whose activo is true,
\* alumnos_inactivos the number whose activo is false, and their sum is
\* total_alumnos, the number of records.
C8_StatisticsPartitionByActive ==
    resp.op = "get_statistics" =>
        /\ resp.status = 200
        /\ resp.body.total_alumnos = Len(Students)
        /\ resp.body.alumnos_activos = CountOf(Students, IsActive)
        /\ resp.body.alumnos_inactivos = CountOf(Students, IsInactive)
        /\ resp.body.alumnos_activos + resp.body.alumnos_inactivos
             = resp.body.total_alumnos

----------------------------------------------------------------------------
(* C9 *)

RECURSIVE SumCantidad(_)
SumCantidad(counts) ==
    IF counts = <<>> THEN 0
    ELSE Head(counts).cantidad + SumCantidad(Tail(counts))

\* the first position of ds whose dict holds value v under field
FirstSeen(ds, field, v) ==
    CHOOSE k \in 1..Len(ds) :
        /\ ds[k][field] = v
        /\ \A j \in 1..(k - 1) : ds[j][field] # v

\* counts is the tally of the values of field in ds, in first-seen order
IsTally(counts, ds, field) ==
    /\ {counts[i].key : i \in 1..Len(counts)}
         = {ds[k][field] : k \in 1..Len(ds)}
    /\ \A i, j \in 1..Len(counts) : i # j => counts[i].key # counts[j].key
    /\ \A i \in 1..Len(counts) :
         counts[i].cantidad
           = Cardinality({k \in 1..Len(ds) : ds[k][field] = counts[i].key})
    /\ SumCantidad(counts) = Len(ds)
    /\ \A i, j \in 1..Len(counts) :
         i < j => FirstSeen(ds, field, counts[i].key)
                    < FirstSeen(ds, field, counts[j].key)

\* C9: por_curso (and por_nivel) of every statistics response has exactly one
\* entry per distinct curso (nivel) among the records of the store, each with
\* the number of records holding exactly that value, the counts summing to
\* total_alumnos, the entries in the order in which each value first occurs
\* in the record sequence.
C9_TallyPerValueInFirstSeenOrder ==
    resp.op = "get_statistics" =>
        /\ resp.status = 200
        /\ IsTally(resp.body.por_curso, Students, "curso")
        /\ IsTally(resp.body.por_nivel, Students, "nivel")
        /\ SumCantidad(resp.body.por_curso) = resp.body.total_alumnos
        /\ SumCantidad(resp.body.por_nivel) = resp.body.total_alumnos

\* statistics were answered for a store whose last record repeats the curso
\* of the first one and the nivel of the third one
C9_Witness ==
    /\ resp.op = "get_statistics"
    /\ Len(Students) = 4
    /\ Len(resp.body.por_curso) = 3
    /\ resp.body.por_curso[1].cantidad = 2
    /\ Students[4].curso = Students[1].curso
    /\ resp.body.por_nivel[3].cantidad = 2

----------------------------------------------------------------------------
(* C10 *)

\* two characters are the same letter, whatever their case
SameLetter(a, b) ==
    \/ a = b
    \/ \E k \in 1..Len(UpperChars) :
         {a, b} = {UpperChars[k], LowerChars[k]}

\* the stored text equals the filter text ignoring letter case
EqualIgnoringCase(stored, text) ==
    /\ ~IsNone(stored)
    /\ Len(Val(stored)) = Len(Val(text))
    /\ \A i \in 1..Len(Val(text)) : SameLetter(Val(stored)[i], Val(text)[i])

\* a text filter is present when it is given and not empty
Present(text) == ~IsNone(text) /\ Val(text) # <<>>

\* the records of ds that satisfy all the filters that are present
Matching(ds, activo, curso, nivel) ==
    LET match(s) ==
            /\ IsNone(activo) \/ s.activo = activo
            /\ ~Present(curso) \/ EqualIgnoringCase(s.curso, curso)
            /\ ~Present(nivel) \/ EqualIgnoringCase(s.nivel, nivel)
    IN SelectSeq(ds, match)

\* C10 (as claimed): for every reachable store and every combination of the
\* filters, list is answered 200 with exactly the subsequence of the store's
\* records that satisfy all the filters present, in store order, the empty
\* sequence when none match.
C10_ListIsTheMatchingSubsequence ==
    resp = Idle =>
        \A a \in ActivoFilters, c \in CursoFilters, n \in NivelFilters :
            LET r == get_students_handler(Globals, now, None, a, c, n)
            IN /\ r.resp.status = 200
               /\ r.resp.body = Matching(StudentsOf(Fresh), a, c, n)


----------------------------------------------------------------------------
(* C11 *)

\* the outcome of an authorized explicit reset arriving now
ExplicitReset == reset_demo_data_handler(Globals, now, Key)

\* C11 (as claimed): an authorized explicit reset, in any store state and at
\* any clock value, leaves the store holding exactly the three seeded records
\* with their original field values, next_id = 4 and last_reset = now, so
\* that the reset pre-check of a request arriving at most 30 minutes later
\* changes nothing.
C11_ExplicitResetRestoresSeed ==
    resp = Idle =>
        LET r == ExplicitReset
        IN /\ r.resp.status = 200
           /\ StudentsOf(r.g) = OriginalSeed
           /\ r.g.next_id = FIRST_FREE_ID
           /\ r.g.last_reset = now
           /\ \A d \in 0..RESET_MINUTES :
                reset_data_if_needed(r.g, now + d) = r.g
           /\ reset_data_if_needed(r.g, now + RESET_MINUTES + 1) # r.g


----------------------------------------------------------------------------
(* C12 *)

WriteOps == {"create_student", "update_student", "delete_student",
             "deactivate_student", "activate_student", "reset_demo_data"}

\* this step serves a request: its response is pending after it
ServesRequest == resp = Idle /\ resp' # Idle

\* the requests that may arrive, as records
Requests ==
    {[op |-> op] : op \in {"root", "health_check", "get_statistics",
                           "reset_demo_data"}}
    \cup {[op |-> "get_students", activo |-> a, curso |-> c, nivel |-> n] :
            a \in ActivoFilters, c \in CursoFilters, n \in NivelFilters}
    \cup {[op |-> op, student_id |-> i] :
            op \in {"get_student", "delete_student", "deactivate_student",
                    "activate_student"}, i \in StudentIds}
    \cup {[op |-> "create_student", body |-> b] : b \in CreateBodies}
    \cup {[op |-> "update_student", student_id |-> i, body |-> b] :
            i \in StudentIds, b \in UpdateBodies}

\* the outcome of request q with the given credentials, served at time t on
\* globals g
Handle(g, t, credentials, q) ==
    CASE q.op = "root" -> root_handler(g, t, credentials)
      [] q.op = "health_check" -> health_check_handler(g, t, credentials)
      [] q.op = "get_students" ->
            get_students_handler(g, t, credentials, q.activo, q.curso,
                                 q.nivel)
      [] q.op = "get_student" ->
            get_student_handler(g, t, credentials, q.student_id)
      [] q.op = "get_statistics" -> get_statistics_handler(g, t, credentials)
      [] q.op = "create_student" ->
            create_student_handler(g, t, credentials, q.body)
      [] q.op = "update_student" ->
            update_student_handler(g, t, credentials, q.student_id, q.body)
      [] q.op = "delete_student" ->
            delete_student_handler(g, t, credentials, q.student_id)
      [] q.op = "deactivate_student" ->
            deactivate_student_handler(g, t, credentials, q.student_id)
      [] q.op = "activate_student" ->
            activate_student_handler(g, t, credentials, q.student_id)
      [] q.op = "reset_demo_data" -> reset_demo_data_handler(g, t, credentials)

\* C12 (as claimed): whenever the window has elapsed, any incoming operation,
\* a mutating request rejected as Unauthorized included, resets the store.
C12_AnyOperationResetsFirst ==
    [][(WindowElapsed /\ ServesRequest) => last_reset' = now]_vars

\* C12 (amended): the access gate of a mutating operation runs before the
\* reset pre-check.  When the window has elapsed, a mutating request without
\* valid credentials is rejected as Unauthorized and leaves the store,
\* next_id and last_reset untouched; every other request resets the store
\* before anything else is decided: last_reset becomes now and the request is
\* answered, and leaves the store, as it would on the store just reset.
C12_GateThenResetFirst ==
    (resp = Idle /\ WindowElapsed) =>
        \A q \in Requests :
            /\ q.op \in WriteOps =>
                 \A c \in Credentials \ {Key} :
                    Handle(Globals, now, c, q) = Unauthorized(Globals, q.op, c)
            /\ LET r == Handle(Globals, now, Key, q)
               IN /\ r.resp.status # 401
                  /\ r.g.last_reset = now
                  /\ r = Handle(ResetAt(Globals, now), now, Key, q)

\* with the window elapsed a create without valid credentials was rejected,
\* and the record created before is still in the store
C12_Witness ==
    /\ resp.op = "create_student" /\ resp.status = 401
    /\ WindowElapsed
    /\ Len(students_db) = 4


----------------------------------------------------------------------------
(* C13 *)

\* C13 (as claimed): the seed snapshot is immutable: after any sequence of
\* operations the seed used for resets consists of the same three records,
\* with the same field values, as at process start.
C13_SeedImmutable ==
    INITIAL_STUDENTS = OriginalSeed


----------------------------------------------------------------------------
(* C14 *)

\* C14: in every reachable state the ids of the records of the store are
\* positive integers, pairwise distinct, and each is strictly less than
\* next_id.
C14_IdsDistinctBelowNextId ==
    \A k \in 1..Len(Students) :
        /\ Students[k].id \in Nat \ {0}
        /\ Students[k].id < next_id
        /\ \A j \in 1..Len(Students) :
                j # k => Students[j].id # Students[k].id

\* record 1 was deleted and a record was created since; a further create was
\* answered 400: the store holds ids 2, 3, 4 and next_id = 5
C14_Witness ==
    /\ resp.op = "create_student" /\ resp.status = 400
    /\ [k \in 1..Len(Students) |-> Students[k].id] = <<2, 3, 4>>
    /\ next_id = 5


----------------------------------------------------------------------------
(* C15 *)

\* the clock values at which the pre-check is examined: the present one, the
\* time of the last reset, and the two around the end of the window
CheckTimes ==
    {now, last_reset, last_reset + RESET_MINUTES,
     last_reset + RESET_MINUTES + 1}

\* C15: the reset pre-check, run at time t on the globals of any reachable
\* state, changes nothing when t - last_reset is at most 30 minutes (exactly
\* 30 included); when it is more, the store becomes the three seed records,
\* next_id 4 and last_reset t; and running it a second time at the same t
\* changes nothing more.
C15_PreCheckStrictAndIdempotent ==
    \A t \in CheckTimes :
        LET r == reset_data_if_needed(Globals, t)
        IN /\ (t - last_reset <= 30) => r = Globals
           /\ (t - last_reset > 30) =>
                /\ r # Globals
                /\ StudentsOf(r) = INITIAL_STUDENTS
                /\ r.next_id = 4
                /\ r.last_reset = t
                /\ r.seeds = INITIAL_STUDENTS
           /\ reset_data_if_needed(r, t) = r

\* a read served exactly 30 minutes after the last reset left a created
\* record in the store
C15_Witness ==
    /\ resp.op = "get_statistics"
    /\ now - last_reset = 30
    /\ Len(students_db) = 4
    /\ next_id = 5


----------------------------------------------------------------------------
(* C16 *)

\* the fields a request may set
SettableFields ==
    {"nombre", "apellido", "email", "telefono", "curso", "nivel", "activo"}

\* the outcome of an authorized update of record i with body b arriving now
Updated(i, b) == update_student_handler(Globals, now, Key, i, b)

\* C16: when the reset window has not elapsed, a successful update of record
\* i returns that record with the settable fields the body supplies at the
\* supplied values and every other field as before, and leaves the store
\* with that record in its place, every other record, the order of the
\* records, next_id and last_reset as before.
C16_UpdateChangesOnlySuppliedFields ==
    (resp = Idle /\ ~WindowElapsed) =>
        \A i \in StudentIds, b \in UpdateBodies :
            LET r == Updated(i, b)
                after == StudentsOf(r.g)
            IN r.resp.status = 200 =>
                /\ Len(after) = Len(Students)
                /\ \A k \in 1..Len(Students) :
                     IF Students[k].id = i
                     THEN /\ after[k] = r.resp.body
                          /\ \A f \in DOMAIN Students[k] :
                               after[k][f] =
                                 IF f \in SettableFields \cap DOMAIN b
                                 THEN b[f] ELSE Students[k][f]
                     ELSE after[k] = Students[k]
                /\ r.g.next_id = next_id
                /\ r.g.last_reset = last_reset

\* an update supplying email and nivel (and an id and a date, which cannot be
\* set) was applied to record 1, whose other fields are as in the seed
C16_Witness ==
    /\ resp.op = "update_student" /\ resp.status = 200
    /\ resp.body.id = 1
    /\ resp.body.email = Some(Ana)
    /\ resp.body.nivel = Some(Intermedio)
    /\ resp.body.curso = OriginalSeed[1].curso
    /\ Students[1] = resp.body
    /\ Students[2] = OriginalSeed[2]


----------------------------------------------------------------------------
(* C17 *)

\* the read requests that may arrive
ReadRequests == {q \in Requests : q.op \in ReadOps}

\* C17: when the reset window has not elapsed, a read operation (list, get,
\* statistics, health, root), with or without credentials, leaves the
\* records, the seed, next_id and last_reset as they were; and a second
\* statistics call, with no operation in between and the window still not
\* elapsed, returns what the first returned.
C17_ReadsLeaveStore ==
    (resp = Idle /\ ~WindowElapsed) =>
        /\ \A q \in ReadRequests, c \in ReadCredentials :
                Handle(Globals, now, c, q).g = Globals
        /\ \A c1 \in ReadCredentials, c2 \in ReadCredentials :
            LET first == get_statistics_handler(Globals, now, c1)
            IN \A t \in {now, last_reset + RESET_MINUTES} :
                   t >= now =>
                     get_statistics_handler(first.g, t, c2).resp = first.resp

\* statistics were served, within the window, on a store of two records that
\* two mutating requests had changed
C17_Witness ==
    /\ resp.op = "get_statistics" /\ resp.status = 200
    /\ ~WindowElapsed
    /\ mutations = 2
    /\ resp.body.total_alumnos = 2
    /\ resp.body.alumnos_activos = 1


----------------------------------------------------------------------------
(* C18 *)

\* task p executes a statement of its handler in this step
Executes(p) == tasks[p].pc \notin {"idle", "done"} /\ tasks'[p] # tasks[p]

\* task q is inside a mutation: it replaced the store and has not yet set
\* next_id and last_reset, or appended a record and has not yet incremented
\* next_id
MidMutation(q) == tasks[q].pc \in {"L140", "L141", "L266"}

\* task p was answered with a created record
CreatedBy(p) == tasks[p].pc = "done" /\ tasks[p].status = 200
                    /\ tasks[p].op = "create_student"

\* the record task p created
RecordOf(p) == Val(tasks[p].new_student)

\* no statement of a request executes while another request is inside a
\* mutation, and a request executing a statement finds every id of the store
\* below next_id (but for the record it appended itself and is about to
\* count)
NoMidMutationView ==
    \A p \in TaskIds :
        Executes(p) =>
            /\ \A q \in TaskIds \ {p} : ~MidMutation(q)
            /\ tasks[p].pc # "L266" =>
                 \A k \in 1..Len(Students) : Students[k].id < next_id

\* C18 (as claimed): under any interleaving of two concurrent requests no
\* request observes the store mid-mutation, no request sees a record whose id
\* is greater than or equal to next_id, and two concurrent creates never
\* receive the same id.
C18_CreateIsAtomic ==
    [][/\ NoMidMutationView
       /\ \A p \in TaskIds, q \in TaskIds :
            (p # q /\ CreatedBy(p)' /\ CreatedBy(q)')
                => RecordOf(p)'.id # RecordOf(q)'.id
      ]_vars

\* C18 (amended): the same, but two concurrent creates may receive the same
\* id when the store is reset between the two (the reset window elapses
\* while they are in flight): creates that find the same last_reset receive
\* different ids.
C18_CreateIsAtomicUpToReset ==
    [][/\ NoMidMutationView
       /\ \A p \in TaskIds, q \in TaskIds :
            (p # q /\ CreatedBy(p)' /\ CreatedBy(q)'
                   /\ tasks'[p].epoch = tasks'[q].epoch)
                => RecordOf(p)'.id # RecordOf(q)'.id
      ]_vars

\* two creates in flight at the same time were answered with ids 4 and 5,
\* and both records are in the store
C18_Witness ==
    /\ CreatedBy(1) /\ CreatedBy(2)
    /\ {RecordOf(1).id, RecordOf(2).id} = {4, 5}
    /\ IdsOf(Students) = 1..5
    /\ next_id = 6


----------------------------------------------------------------------------
(* C19 *)

\* the reset pre-check of task p is over
PreCheckOver(p) ==
    \/ tasks[p].pc \in {"L256", "L259", "L265", "L266", "L268", "L163"}
    \/ tasks[p].pc = "done" /\ tasks[p].status # 401

\* task p was rejected as Unauthorized
RejectedTask(p) == tasks[p].pc = "done" /\ tasks[p].status = 401

\* of the two requests p and q, in flight together, exactly one replaced the
\* store, and a record the one created is in the store, its id below next_id
ReplacedOnce(p, q) ==
    /\ tasks[p].did_reset # tasks[q].did_reset
    /\ CreatedBy(p) =>
         /\ \E k \in 1..Len(Students) : Students[k] = RecordOf(p)
         /\ RecordOf(p).id < next_id
         /\ next_id > FIRST_FREE_ID

\* C19 (as claimed): of two concurrent requests that both arrive after the
\* window has elapsed, exactly one replaces the store, and the record the
\* first of them creates after the reset is not discarded, nor next_id
\* rewound to 4, by the pre-check of the other.
C19_ResetExactlyOnce ==
    \A p \in TaskIds, q \in TaskIds :
        (/\ p # q
         /\ tasks[p].late /\ tasks[q].late
         /\ PreCheckOver(p) \/ RejectedTask(p)
         /\ PreCheckOver(q) \/ RejectedTask(q))
            => ReplacedOnce(p, q)

\* C19 (amended): the same of two concurrent requests that pass the access
\* gate; a request rejected as Unauthorized replaces nothing.
C19_ResetExactlyOnceByServedRequests ==
    \A p \in TaskIds, q \in TaskIds :
        /\ (/\ p # q
            /\ tasks[p].late /\ tasks[q].late
            /\ PreCheckOver(p) /\ PreCheckOver(q))
              => ReplacedOnce(p, q)
        /\ RejectedTask(p) => ~tasks[p].did_reset

\* two creates arrived after the window had elapsed; the first replaced the
\* store and was given id 4, the second was given id 5
C19_Witness ==
    /\ tasks[1].late /\ tasks[2].late
    /\ CreatedBy(1) /\ CreatedBy(2)
    /\ tasks[1].did_reset /\ ~tasks[2].did_reset
    /\ RecordOf(1).id = 4 /\ RecordOf(2).id = 5
    /\ last_reset = 31


----------------------------------------------------------------------------
(* C20 *)

\* C20 (as claimed): in every reachable state every record of the store is
\* well-formed: activo is a boolean, never null, and nombre, apellido, email,
\* curso and nivel are non-null text.
C20_RecordsWellFormed ==
    \A k \in 1..Len(Students) :
        /\ ~IsNone(Students[k].activo)
        /\ Val(Students[k].activo) \in BOOLEAN
        /\ \A f \in {"nombre", "apellido", "email", "curso", "nivel"} :
                ~IsNone(Students[k][f])

====
